---- MODULE Spec2Model ----
(***************************************************************************)
(* A model of app.py (AIsosceles, a minimal Flask site): the submission    *)
(* log written by append_csv on behalf of the subscribe and contact        *)
(* handlers, the post lister list_markdown_posts with the listing pages,   *)
(* and render_markdown_file with the single-post pages.                    *)
(*                                                                         *)
(* A log file is a sequence of cells.  A cell stands for the text of one   *)
(* field of one csv row, or for the row terminator, and is tagged with the *)
(* request that wrote it:  [by |-> r, row |-> "header" | "data",           *)
(* col |-> <column name> | EOL].                                           *)
(***************************************************************************)
EXTENDS Integers, Sequences, FiniteSets, TLC

VARIABLES
    files,      \* data/subscribers.csv and data/contacts.csv: existence and cells
    req,        \* one record per form submission: the handler's locals and position
    dirs,       \* content/blog_posts and content/study_sessions: existence and entries
    removed,    \* whether a content author has removed a file during the run
    lister,     \* a listing page request (index, blog, study_sessions)
    renderer    \* a single-post page request (blog_post, study_session_post)

logVars == <<files, req>>

contentVars == <<dirs, removed, lister, renderer>>

vars == <<files, req, dirs, removed, lister, renderer>>

----------------------------------------------------------------------------
(* Bounds *)

NReq == 2           \* form submissions in one run

Req == 1..NReq

MaxFiles == 4       \* files in a content directory

MaxMtime == 3       \* distinct modification times

----------------------------------------------------------------------------
(* Paths and fixed rows *)

SUBSCRIBE_FILE == "subscribers.csv"

CONTACTS_FILE == "contacts.csv"

LogFiles == {SUBSCRIBE_FILE, CONTACTS_FILE}

\* a path with no file behind it
NoFile == [exists |-> FALSE, cells |-> <<>>]

EOL == "\r\n"

SubscribeHeader == <<"email", "utc_time">>

ContactHeader == <<"utc_time", "name", "email", "message">>

\* the header= argument each handler passes to append_csv
HeaderOf(f) == IF f = SUBSCRIBE_FILE THEN SubscribeHeader ELSE ContactHeader

\* the path each handler passes to append_csv
FileOf(k) == IF k = "subscribe" THEN SUBSCRIBE_FILE ELSE CONTACTS_FILE

----------------------------------------------------------------------------
(* Form input: request.form.get(key, "").strip() *)

\* a key the form does not carry
Missing == <<"Missing">>

Whitespace == {" ", "\t", "\n"}

\* the values a form field is sent with (strings are sequences of characters)
FormValues ==
    { Missing, <<>>, <<" ", "\t">>, <<"a">>, <<" ", "a", "\n">> }

\* request.form.get(key, "")
FormGet(v) == IF v = Missing THEN <<>> ELSE v

RECURSIVE LStrip(_)
LStrip(s) ==
    IF s # <<>> /\ Head(s) \in Whitespace THEN LStrip(Tail(s)) ELSE s

RECURSIVE RStrip(_)
RStrip(s) ==
    IF s # <<>> /\ s[Len(s)] \in Whitespace
    THEN RStrip(SubSeq(s, 1, Len(s) - 1))
    ELSE s

\* str.strip()
Strip(s) == RStrip(LStrip(s))

----------------------------------------------------------------------------
(* csv rows as cells *)

RECURSIVE CellsOf(_, _, _)
CellsOf(r, kind, cols) ==
    IF cols = <<>>
    THEN <<[by |-> r, row |-> kind, col |-> EOL]>>
    ELSE <<[by |-> r, row |-> kind, col |-> Head(cols)]>>
         \o CellsOf(r, kind, Tail(cols))

\* writer.writerow(header), written by request r
HeaderRow(r, f) == CellsOf(r, "header", HeaderOf(f))

\* writer.writerow(row): one field per column of the file, then the terminator
DataRow(r, f) == CellsOf(r, "data", HeaderOf(f))

RECURSIVE Concat(_)
Concat(rows) == IF rows = <<>> THEN <<>> ELSE Head(rows) \o Concat(Tail(rows))

IsPrefix(s, t) == Len(s) <= Len(t) /\ SubSeq(t, 1, Len(s)) = s

----------------------------------------------------------------------------
(* The file object of path.open("a", newline="", encoding="utf-8") *)

\* a hole left by a write past the end of the file
Hole == [by |-> 0, row |-> "hole", col |-> "hole"]

\* mode "w" instead of "a": the file is emptied when it is opened
OpenTruncate(cells) == <<>>

\* mode "a" neither truncates nor replaces what the file holds
OpenContent(cells) == cells

\* mode "r+" instead of "a": every handle writes from the start of the file
WritePosStart(cells) == 0

\* mode "a" (O_APPEND): every write lands at the current end of the file
WritePos(cells) == Len(cells)

WriteAt(cells, at, data) ==
    [i \in 1..(IF at + Len(data) > Len(cells) THEN at + Len(data) ELSE Len(cells)) |->
        IF i > at /\ i <= at + Len(data) THEN data[i - at]
        ELSE IF i <= Len(cells) THEN cells[i] ELSE Hole]

\* "if header:" instead of "if first and header:"
HeaderAlways(first, header) == header # <<>>

\* if first and header:
HeaderNeeded(first, header) == first /\ header # <<>>

----------------------------------------------------------------------------
(* Requests *)

IdleReq ==
    [kind |-> "none", name |-> <<>>, email |-> <<>>, message |-> <<>>,
     pc |-> "idle", first |-> FALSE, buf |-> <<>>, outcome |-> "none", raised |-> FALSE, pred |-> {}]

\* the file object is open between path.open and the end of the with block
IsOpen(q) == q.pc \in {"header", "row", "close"}

\* the submissions acknowledged so far
Succeeded == {q \in Req : req[q].outcome = "success"}

\* the handler catches the OSError and goes on to the success message
SwallowIOError(q) == [q EXCEPT !.pc = "flash", !.raised = TRUE, !.buf = <<>>]

\* append_csv is called with no try/except around it: an OSError leaves the
\* handler at once and reaches Flask, which answers 500
RaiseIOError(q) ==
    [q EXCEPT !.pc = "done", !.outcome = "ioerror", !.raised = TRUE, !.buf = <<>>]

\* subscribe(): if not email
SubscribeValid(email) == email # <<>>

\* "if not email:" in contact(), the message forgotten
ContactValidEmailOnly(name, email, message) == email # <<>>

\* contact(): if not (message and email); the name plays no part
ContactValid(name, email, message) == message # <<>> /\ email # <<>>

\* requests are numbered in the order of their arrival
NextArrival(r) == req[r].pc = "idle" /\ \A q \in Req : q < r => req[q].pc # "idle"

\* subscribe(), lines 119-123: read and trim the email, reject when empty
Subscribe(r) ==
    /\ NextArrival(r)
    /\ \E rawEmail \in FormValues :
         LET email == Strip(FormGet(rawEmail)) IN
         req' = [req EXCEPT ![r] =
                    IF ~SubscribeValid(email)
                    THEN [@ EXCEPT !.kind = "subscribe", !.email = email,
                                   !.outcome = "invalid", !.pc = "done",
                                   !.pred = Succeeded]
                    ELSE [@ EXCEPT !.kind = "subscribe", !.email = email,
                                   !.pc = "exists", !.pred = Succeeded]]
    /\ UNCHANGED <<files, contentVars>>

\* contact(), lines 131-137: read and trim the three fields, reject when the
\* email or the message is empty
Contact(r) ==
    /\ NextArrival(r)
    /\ \E rawName \in FormValues, rawEmail \in FormValues, rawMessage \in FormValues :
         LET name == Strip(FormGet(rawName))
             email == Strip(FormGet(rawEmail))
             message == Strip(FormGet(rawMessage))
         IN
         req' = [req EXCEPT ![r] =
                    IF ~ContactValid(name, email, message)
                    THEN [@ EXCEPT !.kind = "contact", !.name = name,
                                   !.email = email, !.message = message,
                                   !.outcome = "invalid", !.pc = "done",
                                   !.pred = Succeeded]
                    ELSE [@ EXCEPT !.kind = "contact", !.name = name,
                                   !.email = email, !.message = message,
                                   !.pc = "exists", !.pred = Succeeded]]
    /\ UNCHANGED <<files, contentVars>>

\* append_csv, line 58: first = not path.exists()
AppendExists(r) ==
    /\ req[r].pc = "exists"
    /\ req' = [req EXCEPT ![r].first = ~files[FileOf(req[r].kind)].exists,
                          ![r].pc = "open"]
    /\ UNCHANGED <<files, contentVars>>

\* append_csv, line 59: path.open("a") creates the file when it is absent, or
\* raises OSError when the storage is unwritable (permissions, path missing)
AppendOpen(r) ==
    LET f == FileOf(req[r].kind) IN
    /\ req[r].pc = "open"
    /\ \/ /\ files' = [files EXCEPT ![f] =
                          [exists |-> TRUE, cells |-> OpenContent(files[f].cells)]]
          /\ req' = [req EXCEPT ![r].pc = "header"]
       \/ /\ req' = [req EXCEPT ![r] = RaiseIOError(@)]
          /\ UNCHANGED files
    /\ UNCHANGED contentVars

\* append_csv, lines 61-62: the header goes into the file object's buffer
AppendHeader(r) ==
    LET f == FileOf(req[r].kind) IN
    /\ req[r].pc = "header"
    /\ req' = [req EXCEPT ![r].buf =
                    IF HeaderNeeded(req[r].first, HeaderOf(f))
                    THEN @ \o HeaderRow(r, f) ELSE @,
                          ![r].pc = "row"]
    /\ UNCHANGED <<files, contentVars>>

\* append_csv, line 63: the data row goes into the buffer
AppendRow(r) ==
    LET f == FileOf(req[r].kind) IN
    /\ req[r].pc = "row"
    /\ req' = [req EXCEPT ![r].buf = @ \o DataRow(r, f), ![r].pc = "close"]
    /\ UNCHANGED <<files, contentVars>>

\* the buffered writer hands what it holds to the file in one write
Flushed(r) ==
    LET f == FileOf(req[r].kind)
        at == WritePos(files[f].cells)
    IN [files EXCEPT ![f].cells = WriteAt(@, at, req[r].buf)]

\* the buffer may be written out before close (a row larger than the buffer
\* is passed on as soon as writerow returns)
FlushEarly(r) ==
    /\ req[r].pc \in {"row", "close"}
    /\ req[r].buf # <<>>
    /\ files' = Flushed(r)
    /\ req' = [req EXCEPT ![r].buf = <<>>]
    /\ UNCHANGED contentVars

\* append_csv, line 59: leaving the with block flushes and closes the file;
\* the flush raises OSError when the storage cannot take the data (disk full)
AppendClose(r) ==
    /\ req[r].pc = "close"
    /\ \/ /\ files' = Flushed(r)
          /\ req' = [req EXCEPT ![r].buf = <<>>, ![r].pc = "flash"]
       \/ /\ req[r].buf # <<>>
          /\ req' = [req EXCEPT ![r] = RaiseIOError(@)]
          /\ UNCHANGED files
    /\ UNCHANGED contentVars

\* subscribe() lines 125-126, contact() lines 139-140: flash the success
\* message and redirect
FlashSuccess(r) ==
    /\ req[r].pc = "flash"
    /\ req' = [req EXCEPT ![r].outcome = "success", ![r].pc = "done"]
    /\ UNCHANGED <<files, contentVars>>

----------------------------------------------------------------------------
(* The content store *)

BLOG_DIR == "blog_posts"

STUDY_DIR == "study_sessions"

Folders == {BLOG_DIR, STUDY_DIR}

Mtimes == 1..MaxMtime

\* what a directory entry can be: a markdown file with its modification time,
\* or a file of another kind (its modification time is never read)
EntryKinds ==
    [ext : {"md"}, mtime : Mtimes] \cup {[ext |-> "txt", mtime |-> 1]}

\* the directories of up to MaxFiles entries, in the order the directory
\* enumeration produces them; the stem is the entry's name
DirContents ==
    UNION { { [i \in 1..n |-> [stem |-> i, ext |-> k[i].ext, mtime |-> k[i].mtime]] :
                k \in [1..n -> EntryKinds] } : n \in 0..MaxFiles }

\* the post_name of a request: the stem of a file, or 0, which names none
PostNames == 0..MaxFiles

RECURSIVE SelectSeq2(_, _)
SelectSeq2(s, ext) ==
    IF s = <<>> THEN <<>>
    ELSE IF Head(s).ext = ext
         THEN <<Head(s).stem>> \o SelectSeq2(Tail(s), ext)
         ELSE SelectSeq2(Tail(s), ext)

\* folder.glob("*.md"): the paths of the markdown entries, in enumeration
\* order; nothing when the folder does not exist
Glob(d) == IF d.exists THEN SelectSeq2(d.entries, "md") ELSE <<>>

\* Path.exists() of folder / "<stem>.md"
PathExists(d, stem) ==
    d.exists /\ \E i \in 1..Len(d.entries) :
                    d.entries[i].stem = stem /\ d.entries[i].ext = "md"

\* md.stat().st_mtime of an existing path
StatMtime(d, stem) ==
    LET i == CHOOSE j \in 1..Len(d.entries) :
                 d.entries[j].stem = stem /\ d.entries[j].ext = "md"
    IN d.entries[i].mtime

Reverse(s) == [i \in 1..Len(s) |-> s[Len(s) + 1 - i]]

RECURSIVE InsertAsc(_, _)
InsertAsc(s, p) ==
    IF s = <<>> THEN <<p>>
    ELSE IF Head(s).mtime <= p.mtime
         THEN <<Head(s)>> \o InsertAsc(Tail(s), p)
         ELSE <<p>> \o s

\* a stable ascending sort on the key p["mtime"]
RECURSIVE StableSortAsc(_)
StableSortAsc(s) ==
    IF s = <<>> THEN <<>>
    ELSE InsertAsc(StableSortAsc(SubSeq(s, 1, Len(s) - 1)), s[Len(s)])

\* sorted(posts, key=...) with reverse=True forgotten
SortedAscending(posts) == StableSortAsc(posts)

\* sorted(posts, key=...)[::-1] instead of reverse=True
SortedThenReversed(posts) == Reverse(StableSortAsc(posts))

\* sorted(posts, key=lambda p: p["mtime"], reverse=True): Python reverses the
\* list, sorts it stably in ascending order and reverses the result
Sorted(posts) == Reverse(StableSortAsc(Reverse(posts)))

\* the slice [:3] of the index page
TopK == 3

Slice(s, n) == SubSeq(s, 1, IF Len(s) < n THEN Len(s) ELSE n)

\* the dict list_markdown_posts builds for one file; "path" and "title" are
\* functions of the filename alone
Post(stem, mtime) == [filename |-> <<stem, ".md">>, mtime |-> mtime]

NotListed == [listed |-> FALSE, posts |-> <<>>]

NoPage == [latest_blog |-> <<>>, latest_study |-> <<>>, posts |-> <<>>, sessions |-> <<>>]

IdleLister ==
    [pc |-> "idle", handler |-> "none", todo |-> <<>>, paths |-> <<>>,
     posts |-> <<>>, results |-> [f \in Folders |-> NotListed],
     page |-> NoPage, outcome |-> "none"]

IdleRenderer ==
    [pc |-> "idle", folder |-> BLOG_DIR, post_name |-> 0,
     found |-> FALSE, html |-> <<>>, outcome |-> "none"]

\* index(), lines 68-72: lists the blog posts, then the study sessions
Index ==
    /\ lister.pc = "idle"
    /\ lister' = [lister EXCEPT !.handler = "index", !.pc = "glob",
                                !.todo = <<BLOG_DIR, STUDY_DIR>>]
    /\ UNCHANGED <<logVars, dirs, removed, renderer>>

\* blog(), line 105
Blog ==
    /\ lister.pc = "idle"
    /\ lister' = [lister EXCEPT !.handler = "blog", !.pc = "glob",
                                !.todo = <<BLOG_DIR>>]
    /\ UNCHANGED <<logVars, dirs, removed, renderer>>

\* study_sessions(), line 78
StudySessions ==
    /\ lister.pc = "idle"
    /\ lister' = [lister EXCEPT !.handler = "study_sessions", !.pc = "glob",
                                !.todo = <<STUDY_DIR>>]
    /\ UNCHANGED <<logVars, dirs, removed, renderer>>

\* list_markdown_posts, lines 37-38: posts = [] and the directory is
\* enumerated (pathlib reads all the entries before it yields the first)
ListGlob ==
    /\ lister.pc = "glob"
    /\ lister' = [lister EXCEPT !.paths = Glob(dirs[Head(lister.todo)]),
                                !.posts = <<>>, !.pc = "stat"]
    /\ UNCHANGED <<logVars, dirs, removed, renderer>>

\* list_markdown_posts, lines 39-45: one turn of the loop; md.stat() raises
\* FileNotFoundError when the file is no longer there, and nothing catches it
ListStat ==
    /\ lister.pc = "stat"
    /\ lister.paths # <<>>
    /\ LET d == dirs[Head(lister.todo)]
           md == Head(lister.paths)
       IN IF PathExists(d, md)
          THEN lister' = [lister EXCEPT
                             !.posts = Append(@, Post(md, StatMtime(d, md))),
                             !.paths = Tail(@)]
          ELSE lister' = [lister EXCEPT !.pc = "done", !.outcome = "error"]
    /\ UNCHANGED <<logVars, dirs, removed, renderer>>

\* list_markdown_posts, lines 46-47: sort and return to the handler
ListSort ==
    /\ lister.pc = "stat"
    /\ lister.paths = <<>>
    /\ lister' = [lister EXCEPT
                     !.results[Head(lister.todo)] =
                         [listed |-> TRUE, posts |-> Sorted(lister.posts)],
                     !.posts = <<>>,
                     !.todo = Tail(@),
                     !.pc = IF Tail(lister.todo) = <<>> THEN "respond" ELSE "glob"]
    /\ UNCHANGED <<logVars, dirs, removed, renderer>>

\* the context each listing handler hands to render_template
PageOf(handler, results) ==
    IF handler = "index"
    THEN [NoPage EXCEPT !.latest_blog = Slice(results[BLOG_DIR].posts, TopK),
                        !.latest_study = Slice(results[STUDY_DIR].posts, TopK)]
    ELSE IF handler = "blog"
    THEN [NoPage EXCEPT !.posts = results[BLOG_DIR].posts]
    ELSE [NoPage EXCEPT !.sessions = results[STUDY_DIR].posts]

\* index() lines 71-74, blog() line 106, study_sessions() line 79
ListRespond ==
    /\ lister.pc = "respond"
    /\ lister' = [lister EXCEPT !.page = PageOf(lister.handler, lister.results),
                                !.outcome = "ok", !.pc = "done"]
    /\ UNCHANGED <<logVars, dirs, removed, renderer>>

\* blog_post(post_name), line 110
BlogPost(post_name) ==
    /\ renderer.pc = "idle"
    /\ renderer' = [renderer EXCEPT !.folder = BLOG_DIR, !.post_name = post_name,
                                    !.pc = "exists"]
    /\ UNCHANGED <<logVars, dirs, removed, lister>>

\* study_session_post(post_name), line 83
StudySessionPost(post_name) ==
    /\ renderer.pc = "idle"
    /\ renderer' = [renderer EXCEPT !.folder = STUDY_DIR, !.post_name = post_name,
                                    !.pc = "exists"]
    /\ UNCHANGED <<logVars, dirs, removed, lister>>

\* markdown.markdown(text, ...) of the file's text
Html(stem) == <<"html", stem>>

\* render_markdown_file, lines 51-52: if not md_path.exists(): return None
RenderExists ==
    /\ renderer.pc = "exists"
    /\ renderer' = [renderer EXCEPT
                       !.found = PathExists(dirs[renderer.folder], renderer.post_name),
                       !.pc = IF PathExists(dirs[renderer.folder], renderer.post_name)
                              THEN "read" ELSE "respond"]
    /\ UNCHANGED <<logVars, dirs, removed, lister>>

\* render_markdown_file, lines 53-55: read_text raises FileNotFoundError when
\* the file is no longer there, and nothing catches it
RenderRead ==
    /\ renderer.pc = "read"
    /\ IF PathExists(dirs[renderer.folder], renderer.post_name)
       THEN renderer' = [renderer EXCEPT !.html = Html(renderer.post_name),
                                         !.pc = "respond"]
       ELSE renderer' = [renderer EXCEPT !.pc = "done", !.outcome = "error"]
    /\ UNCHANGED <<logVars, dirs, removed, lister>>

\* blog_post lines 112-114, study_session_post lines 85-87: abort(404) when
\* html is None, the rendered page otherwise
PostRespond ==
    /\ renderer.pc = "respond"
    /\ renderer' = [renderer EXCEPT
                       !.outcome = IF renderer.html = <<>> THEN "404" ELSE "200",
                       !.pc = "done"]
    /\ UNCHANGED <<logVars, dirs, removed, lister>>

RemoveAt(s, i) == SubSeq(s, 1, i - 1) \o SubSeq(s, i + 1, Len(s))

InProgress(p) == p.pc \notin {"idle", "done"}

\* a content author removes a file while a request is being served (a removal
\* before the request is one of the initial directories); the run follows one
\* removal
AuthorRemove ==
    /\ ~removed
    /\ InProgress(lister) \/ InProgress(renderer)
    /\ \E f \in Folders : \E i \in 1..Len(dirs[f].entries) :
         dirs' = [dirs EXCEPT ![f].entries = RemoveAt(@, i)]
    /\ removed' = TRUE
    /\ UNCHANGED <<logVars, lister, renderer>>

----------------------------------------------------------------------------
(* Specifications *)

InitLog ==
    /\ files = [f \in LogFiles |-> NoFile]
    /\ req = [r \in Req |-> IdleReq]

\* the state after the module is loaded (lines 25-28 create the directories)
\* with no content yet
Init ==
    /\ InitLog
    /\ dirs = [f \in Folders |-> [exists |-> TRUE, entries |-> <<>>]]
    /\ removed = FALSE
    /\ lister = IdleLister
    /\ renderer = IdleRenderer

\* the content the authors have put in place: any blog directory, and a study
\* directory that is empty or has been removed
InitContent ==
    /\ InitLog
    /\ \E c \in DirContents, e \in BOOLEAN :
         dirs = [f \in Folders |->
                    IF f = BLOG_DIR THEN [exists |-> TRUE, entries |-> c]
                    ELSE [exists |-> e, entries |-> <<>>]]
    /\ removed = FALSE
    /\ lister = IdleLister
    /\ renderer = IdleRenderer

Next ==
    \/ \E r \in Req : Subscribe(r)
    \/ \E r \in Req : Contact(r)
    \/ \E r \in Req : AppendExists(r)
    \/ \E r \in Req : AppendOpen(r)
    \/ \E r \in Req : AppendHeader(r)
    \/ \E r \in Req : AppendRow(r)
    \/ \E r \in Req : FlushEarly(r)
    \/ \E r \in Req : AppendClose(r)
    \/ \E r \in Req : FlashSuccess(r)

\* concurrent requests: Flask dispatches each request to its own thread
Spec == Init /\ [][Next]_vars

\* no request is between its arrival and its response
Quiescent == \A q \in Req : req[q].pc \in {"idle", "done"}

\* non-overlapping requests: a request arrives only when no other is in progress
NextSeq ==
    \/ \E r \in Req : Quiescent /\ Subscribe(r)
    \/ \E r \in Req : Quiescent /\ Contact(r)
    \/ \E r \in Req : AppendExists(r)
    \/ \E r \in Req : AppendOpen(r)
    \/ \E r \in Req : AppendHeader(r)
    \/ \E r \in Req : AppendRow(r)
    \/ \E r \in Req : FlushEarly(r)
    \/ \E r \in Req : AppendClose(r)
    \/ \E r \in Req : FlashSuccess(r)

SpecSeq == Init /\ [][NextSeq]_vars

NextList ==
    \/ Index
    \/ Blog
    \/ StudySessions
    \/ ListGlob
    \/ ListStat
    \/ ListSort
    \/ ListRespond
    \/ AuthorRemove

\* a listing page is served while the authors edit the content
SpecList == InitContent /\ [][NextList]_vars

NextRender ==
    \/ \E n \in PostNames : BlogPost(n)
    \/ \E n \in PostNames : StudySessionPost(n)
    \/ RenderExists
    \/ RenderRead
    \/ PostRespond
    \/ AuthorRemove

\* a single-post page is served while the authors edit the content
SpecRender == InitContent /\ [][NextRender]_vars

----------------------------------------------------------------------------
(* Reading a log file back *)

RECURSIVE RowsFrom(_, _)
RowsFrom(cells, cur) ==
    IF cells = <<>>
    THEN IF cur = <<>> THEN <<>> ELSE <<cur>>
    ELSE IF Head(cells).col = EOL
         THEN <<Append(cur, Head(cells))>> \o RowsFrom(Tail(cells), <<>>)
         ELSE RowsFrom(Tail(cells), Append(cur, Head(cells)))

\* the rows of a file: the cells up to and including each terminator, and what
\* follows the last terminator, if anything
Rows(f) == RowsFrom(files[f].cells, <<>>)

IsHeaderRow(row, f) == \E r \in Req : row = HeaderRow(r, f)

IsDataRow(row, f) == \E r \in Req : row = DataRow(r, f)

\* where the complete row of request r stands among the rows of file f
RowsOf(r, f, rows) == {i \in 1..Len(rows) : rows[i] = DataRow(r, f)}

\* the requests that called append_csv on file f
Callers(f) ==
    {r \in Req : req[r].kind # "none" /\ FileOf(req[r].kind) = f
                 /\ req[r].outcome # "invalid" }

OnFile(r, f) == req[r].kind # "none" /\ FileOf(req[r].kind) = f

\* a and b overlapped: neither was acknowledged before the other arrived
Overlapped(a, b) ==
    /\ a # b
    /\ req[a].pc # "idle" /\ req[b].pc # "idle"
    /\ a \notin req[b].pred /\ b \notin req[a].pred

----------------------------------------------------------------------------
(* Claims about the submission log *)

\* C1: any N >= 2 append_csv calls on the same log file that does not yet
\* exist, all of which complete, leave the file with exactly one header row
\* and exactly N data rows, in every interleaving.
C1_OneHeaderNDataRows ==
    \A f \in LogFiles :
        ( /\ Cardinality(Callers(f)) >= 2
          /\ \A r \in Callers(f) : req[r].outcome = "success" )
        => LET rows == Rows(f) IN
           /\ Cardinality({i \in 1..Len(rows) : IsHeaderRow(rows[i], f)}) = 1
           /\ Cardinality({i \in 1..Len(rows) : IsDataRow(rows[i], f)})
                = Cardinality(Callers(f))

\* C2: each append is atomic with respect to the others: every row of a log
\* file is one complete header row or one complete data row of a single
\* submission, and every acknowledged submission has exactly one such row.
C2_RowsAtomic ==
    \A f \in LogFiles :
        LET rows == Rows(f) IN
        /\ \A i \in 1..Len(rows) : IsHeaderRow(rows[i], f) \/ IsDataRow(rows[i], f)
        /\ \A r \in Req : Cardinality(RowsOf(r, f, rows)) <= 1
        /\ \A r \in Succeeded :
              OnFile(r, f) => Cardinality(RowsOf(r, f, rows)) = 1

\* two overlapping submissions to the same file have both been acknowledged
C2_Witness ==
    \E a \in Succeeded, b \in Succeeded :
        /\ Overlapped(a, b)
        /\ req[a].kind = req[b].kind
        /\ Len(Rows(FileOf(req[a].kind))) >= 3

\* C3: for non-overlapping calls none of which fails, the first call creates
\* the file as the header row followed by one data row, and every later call
\* appends one data row and no header: after k calls the file is the header
\* followed by the k data rows, in the order of the calls.
C3_SequentialFile ==
    \A f \in LogFiles :
        ( /\ Quiescent
          /\ \A r \in Callers(f) : ~req[r].raised )
        => LET S == Callers(f)
               rows == Rows(f)
           IN
           IF S = {}
           THEN ~files[f].exists
           ELSE /\ files[f].exists
                /\ Len(rows) = Cardinality(S) + 1
                /\ IsHeaderRow(rows[1], f)
                /\ \A r \in S :
                      rows[Cardinality(req[r].pred \cap S) + 2] = DataRow(r, f)

\* a log file holds the header and two data rows after two calls in a row
C3_Witness ==
    \E f \in LogFiles :
        /\ Quiescent
        /\ Cardinality(Callers(f)) = 2
        /\ \A r \in Callers(f) : req[r].outcome = "success"
        /\ Len(Rows(f)) = 3

\* the rows of acknowledged submissions stand in the order of arrival
\* whenever one was acknowledged before the other arrived
ArrivalOrder ==
    \A f \in LogFiles : \A b \in Succeeded : \A a \in req[b].pred :
        (OnFile(a, f) /\ OnFile(b, f))
        => LET rows == Rows(f) IN
           \A i \in RowsOf(a, f, rows), j \in RowsOf(b, f, rows) : i < j

\* C4: the log is append-only: in every step a log file that exists goes on
\* existing and its old content is a prefix of its new content, and the rows
\* of non-overlapping submissions stand in the order of arrival.
C4_AppendOnly ==
    /\ [][\A f \in LogFiles :
            files[f].exists =>
                /\ files'[f].exists
                /\ IsPrefix(files[f].cells, files'[f].cells)]_vars
    /\ []ArrivalOrder

\* a submission was acknowledged, and then a second one to the same file
C4_Witness ==
    \E a \in Succeeded, b \in Succeeded :
        /\ a \in req[b].pred
        /\ req[a].kind = req[b].kind
        /\ RowsOf(b, FileOf(req[b].kind), Rows(FileOf(req[b].kind))) # {}

\* what the claim calls failing validation, on the fields as trimmed
Rejected(q) ==
    \/ q.kind = "subscribe" /\ Strip(q.email) = <<>>
    \/ q.kind = "contact" /\ (Strip(q.email) = <<>> \/ Strip(q.message) = <<>>)

\* C5: a submission whose email (or, for contact, message) is empty after
\* trimming gets the validation outcome and writes nothing; a file no accepted
\* submission has reached does not exist; an empty name alone is no rejection.
C5_InvalidNotLogged ==
    /\ \A r \in Req : req[r].kind # "none" =>
          IF Rejected(req[r])
          THEN /\ req[r].outcome = "invalid"
               /\ req[r].pc = "done"
               /\ req[r].buf = <<>>
               /\ \A f \in LogFiles : \A i \in 1..Len(files[f].cells) :
                     files[f].cells[i].by # r
          ELSE req[r].outcome # "invalid"
    /\ \A f \in LogFiles : Callers(f) = {} => ~files[f].exists

\* a contact without a message was rejected, and one without a name accepted
C5_Witness ==
    /\ \E r \in Req : /\ req[r].kind = "contact"
                       /\ req[r].email # <<>> /\ req[r].message = <<>>
                       /\ req[r].outcome = "invalid"
    /\ \E r \in Req : /\ req[r].kind = "contact"
                       /\ req[r].name = <<>>
                       /\ req[r].outcome = "success"
    /\ ~files[SUBSCRIBE_FILE].exists

\* C9: the success acknowledgment comes only after the row is in the file and
\* the file is closed; a failed append is not swallowed: the handler ends with
\* the failure and no acknowledgment.
C9_AckAfterDurable ==
    \A r \in Req :
        /\ req[r].pc = "flash" \/ req[r].outcome = "success" =>
              /\ ~IsOpen(req[r])
              /\ req[r].buf = <<>>
              /\ ~req[r].raised
              /\ LET f == FileOf(req[r].kind) IN
                 Cardinality(RowsOf(r, f, Rows(f))) = 1
        /\ req[r].raised =>
              /\ req[r].pc = "done"
              /\ req[r].outcome = "ioerror"

\* one submission was acknowledged and another failed on unwritable storage
C9_Witness ==
    /\ \E r \in Req : req[r].outcome = "success"
    /\ \E r \in Req : req[r].raised

----------------------------------------------------------------------------
(* Claims about the content pipeline *)

MdStems(f) == {Glob(dirs[f])[i] : i \in 1..Len(Glob(dirs[f]))}

DistinctMtimes(f) ==
    \A a \in MdStems(f), b \in MdStems(f) :
        a # b => StatMtime(dirs[f], a) # StatMtime(dirs[f], b)

\* where the file of a post stands in the directory enumeration
EnumIndex(f, post) ==
    CHOOSE i \in 1..Len(Glob(dirs[f])) : <<Glob(dirs[f])[i], ".md">> = post.filename

\* C6: for a directory of N markdown files with pairwise distinct modification
\* times, and any other files, that is not changed during the call, the result
\* has exactly N entries, one per markdown file, in strictly descending order
\* of modification time, and holds no other file.
C6_ListsAllDescending ==
    \A f \in Folders :
        (lister.results[f].listed /\ ~removed /\ DistinctMtimes(f)) =>
            LET res == lister.results[f].posts IN
            /\ Len(res) = Cardinality(MdStems(f))
            /\ \A a \in MdStems(f) :
                 Cardinality({j \in 1..Len(res) :
                     res[j] = Post(a, StatMtime(dirs[f], a))}) = 1
            /\ \A j \in 1..Len(res) : \E a \in MdStems(f) : res[j].filename = <<a, ".md">>
            /\ \A j \in 1..Len(res), k \in 1..Len(res) :
                 j < k => res[j].mtime > res[k].mtime

\* three markdown files that the enumeration yields oldest first, and another
\* file among them, have been listed
C6_Witness ==
    /\ lister.results[BLOG_DIR].listed /\ ~removed /\ DistinctMtimes(BLOG_DIR)
    /\ Len(Glob(dirs[BLOG_DIR])) = 3
    /\ Len(dirs[BLOG_DIR].entries) = 4
    /\ \A i \in 1..2 :
         StatMtime(dirs[BLOG_DIR], Glob(dirs[BLOG_DIR])[i])
            < StatMtime(dirs[BLOG_DIR], Glob(dirs[BLOG_DIR])[i + 1])

\* C7: a document whose file is absent yields the not-found outcome, 404, and
\* never an unhandled failure, also when the file is removed between the
\* existence check and the read.
C7_AbsentIsNotFound ==
    renderer.pc = "done" =>
        IF renderer.html = <<>>
        THEN renderer.outcome = "404"
        ELSE renderer.outcome = "200"

\* C8: list_markdown_posts never fails: it returns a sequence in every state of
\* the content store, the empty one for an empty or nonexistent directory.
C8_ListNeverFails ==
    /\ lister.outcome # "error"
    /\ \A f \in Folders :
         (lister.results[f].listed /\ ~removed /\ Glob(dirs[f]) = <<>>)
            => lister.results[f].posts = <<>>

\* C10: files with identical modification times keep, in the result, the
\* relative order the directory enumeration gave them, and the index page's
\* latest entries are the first min(3, N) entries of the full result.
C10_TiesKeepOrderAndSlice ==
    /\ \A f \in Folders :
         (lister.results[f].listed /\ ~removed) =>
            LET res == lister.results[f].posts IN
            \A j \in 1..Len(res), k \in 1..Len(res) :
                (j < k /\ res[j].mtime = res[k].mtime)
                    => EnumIndex(f, res[j]) < EnumIndex(f, res[k])
    /\ (lister.outcome = "ok" /\ lister.handler = "index") =>
         LET blog == lister.results[BLOG_DIR].posts
             study == lister.results[STUDY_DIR].posts
             Min3(n) == IF n < TopK THEN n ELSE TopK
         IN /\ Len(lister.page.latest_blog) = Min3(Len(blog))
            /\ \A i \in 1..Min3(Len(blog)) : lister.page.latest_blog[i] = blog[i]
            /\ Len(lister.page.latest_study) = Min3(Len(study))
            /\ \A i \in 1..Min3(Len(study)) : lister.page.latest_study[i] = study[i]

\* the index page was built from four posts, two of them with the same
\* modification time among the latest three
C10_Witness ==
    /\ lister.outcome = "ok" /\ lister.handler = "index" /\ ~removed
    /\ Len(lister.results[BLOG_DIR].posts) = 4
    /\ Len(lister.page.latest_blog) = 3
    /\ \E j \in 1..2 :
         lister.page.latest_blog[j].mtime = lister.page.latest_blog[j + 1].mtime

====
